---------------------------- MODULE Spec2Model ----------------------------
(***************************************************************************)
(* PWA lifecycle of the GrowUp shell: PwaInstallService (the installation  *)
(* state and the one-shot deferred install prompt) and                     *)
(* InstallBannerComponent (the showBanner computed signal over the service *)
(* state and the 'install-banner-dismissed' localStorage item).            *)
(*                                                                         *)
(* JavaScript runs one task at a time: every action below is one event     *)
(* handler, one call up to its first await, or one resumed continuation,   *)
(* run to completion.  Continuations of a resolved promise are microtasks: *)
(* they run before any further platform event or user input.               *)
(***************************************************************************)
EXTENDS Naturals, Sequences, FiniteSets

\* Number of beforeinstallprompt events the platform delivers in a run.
MaxOffers == 2
\* Number of showInstallPrompt() invocations in a run.
MaxCalls == 3
\* Number of PwaNotificationService method invocations in a run.
MaxPushCalls == 3

\* deferredPrompt = null
NULL == 0
\* The event objects of the beforeinstallprompt events, in delivery order.
Handles == 1..MaxOffers
\* What userChoice of an event resolves to (pending: not resolved yet).
Outcomes == {"accepted", "dismissed"}
\* localStorage.getItem('install-banner-dismissed'): null, or the stored string.
NoItem == "null"
\* navigator.standalone: a boolean on iOS Safari, undefined elsewhere.
NavigatorStandalone == {"true", "false", "undefined"}
\* window.matchMedia: undefined where the platform has no media queries, else
\* what matchMedia('(display-mode: standalone)').matches gives.
MatchMedia == {"undefined", "true", "false"}
\* Notification.permission
Permissions == {"default", "granted", "denied"}

VARIABLES
    isInstalled,      \* PwaInstallService._isInstalled (signal)
    canInstall,       \* PwaInstallService._canInstall (signal)
    deferredPrompt,   \* PwaInstallService.deferredPrompt: NULL or a handle
    offers,           \* platform: beforeinstallprompt events delivered so far
    promptCount,      \* platform: prompt() invocations seen by each event object
    userChoice,       \* platform: state of each event object's userChoice promise
    calls,            \* the showInstallPrompt() invocations, in call order
    microtasks,       \* continuations ready to resume (indices into calls)
    storage,          \* localStorage item 'install-banner-dismissed'
    showBanner,       \* InstallBannerComponent.showBanner: the computed's node
    constructed,      \* how new PwaInstallService() ended: "ok" or "threw"
    lastHandler,      \* the PwaInstallService handler or continuation that ran last
    installedSinceOffer, \* an appinstalled event was handled after the last offer
    swEnabled,        \* platform: SwPush.isEnabled
    notificationApi,  \* platform: 'Notification' in window
    permission,       \* platform: Notification.permission
    pushSubscription, \* platform: the push transport holds a subscription
    pushCalls,        \* the PwaNotificationService invocations, in call order
    messagesSubs,     \* subscribers of swPush.messages
    clicksSubs        \* subscribers of swPush.notificationClicks

\* The push transport and PwaNotificationService.
pushVars == <<swEnabled, notificationApi, permission, pushSubscription,
              pushCalls, messagesSubs, clicksSubs>>

\* PwaInstallService and InstallBannerComponent.
installVars == <<isInstalled, canInstall, deferredPrompt, offers, promptCount,
                 userChoice, calls, microtasks, storage, showBanner,
                 constructed, lastHandler, installedSinceOffer>>

vars == <<installVars, pushVars>>

----------------------------------------------------------------------------
(* PwaInstallService.checkIfInstalled *)

\* isStandalone || isIOS, with isIOS = (navigator.standalone === true)
checkIfInstalled(isStandalone, navStandalone) ==
    isStandalone \/ (navStandalone = "true")

----------------------------------------------------------------------------
(* Angular signals: computed() memoizes its value and recomputes on a read *)
(* only after a signal it read during its last computation has changed.    *)
(* signal.set(v) with v equal to the current value notifies nobody.        *)

\* The computed's node after `name`.set(new) where the signal held old.
SignalSet(node, name, old, new) ==
    IF old # new /\ node.state = "clean" /\ name \in node.deps
    THEN [node EXCEPT !.state = "dirty"]
    ELSE node

\* const dismissed = localStorage.getItem('install-banner-dismissed') === 'true'
dismissed(item) == item = "true"

\* The body of the computed: !isInstalled() && canInstall() && !dismissed
showBannerFn(inst, can, item) ==
    ~inst /\ can /\ ~dismissed(item)

\* The signals that body reads: && short-circuits after isInstalled() = true.
showBannerDeps(inst) ==
    IF inst THEN {"isInstalled"} ELSE {"isInstalled", "canInstall"}

\* The value showBanner() returns when read in the current state.
showBannerValue ==
    IF showBanner.state = "clean"
    THEN showBanner.value
    ELSE showBannerFn(isInstalled, canInstall, storage)

\* The banner is in the DOM: the template's last read of showBanner() was true.
bannerRendered ==
    showBanner.state # "unset" /\ showBanner.value

----------------------------------------------------------------------------
\* new PwaInstallService(): the field initializers, then checkIfInstalled()
\* and listenForInstallPrompt().  window.matchMedia(...) with matchMedia
\* undefined is a TypeError, thrown out of the constructor before any
\* listener is registered.
InitInstall ==
    /\ \E matchMedia \in MatchMedia, navStandalone \in NavigatorStandalone :
           IF matchMedia = "undefined"
           THEN constructed = "threw" /\ isInstalled = FALSE
           ELSE /\ constructed = "ok"
                /\ isInstalled = checkIfInstalled(matchMedia = "true", navStandalone)
    /\ lastHandler = "constructor"
    /\ installedSinceOffer = FALSE
    /\ canInstall = FALSE
    /\ deferredPrompt = NULL
    /\ offers = 0
    /\ promptCount = [h \in Handles |-> 0]
    /\ userChoice = [h \in Handles |-> "pending"]
    /\ calls = <<>>
    /\ microtasks = <<>>
    /\ storage \in {NoItem, "true"}
    /\ showBanner = [state |-> "unset", value |-> FALSE, deps |-> {}]

\* The platform around PwaNotificationService, which holds no state itself.
InitPush ==
    /\ swEnabled \in BOOLEAN
    /\ notificationApi \in BOOLEAN
    /\ permission \in (IF notificationApi THEN Permissions ELSE {"default"})
    /\ pushSubscription \in (IF swEnabled /\ permission = "granted"
                              THEN BOOLEAN ELSE {FALSE})
    /\ pushCalls = <<>>
    /\ messagesSubs = 0
    /\ clicksSubs = 0

\* PwaNotificationService is injected nowhere: nothing calls it.
PushUnused ==
    /\ swEnabled = FALSE
    /\ notificationApi = FALSE
    /\ permission = "default"
    /\ pushSubscription = FALSE
    /\ pushCalls = <<>>
    /\ messagesSubs = 0
    /\ clicksSubs = 0

Init == InitInstall /\ PushUnused

\* The service exists and no continuation is waiting to run: the next task
\* may start.
Idle == constructed = "ok" /\ microtasks = <<>>

----------------------------------------------------------------------------
(* PwaInstallService.listenForInstallPrompt: the two window listeners *)

\* window 'beforeinstallprompt': a fresh event object e
beforeinstallprompt ==
    /\ Idle
    /\ offers < MaxOffers
    /\ offers' = offers + 1
    /\ deferredPrompt' = offers + 1
    /\ canInstall' = TRUE
    /\ showBanner' = SignalSet(showBanner, "canInstall", canInstall, TRUE)
    /\ lastHandler' = "beforeinstallprompt"
    /\ installedSinceOffer' = FALSE
    /\ UNCHANGED <<isInstalled, promptCount, userChoice, calls, microtasks, storage,
                   constructed, pushVars>>

\* Mutant: the handler forgets this.deferredPrompt = null.
appinstalled_KeepsPrompt ==
    /\ Idle
    /\ isInstalled' = TRUE
    /\ canInstall' = FALSE
    /\ showBanner' = SignalSet(SignalSet(showBanner, "isInstalled", isInstalled, TRUE),
                               "canInstall", canInstall, FALSE)
    /\ lastHandler' = "appinstalled"
    /\ installedSinceOffer' = TRUE
    /\ UNCHANGED <<deferredPrompt, offers, promptCount, userChoice, calls,
                   microtasks, storage, constructed, pushVars>>

\* window 'appinstalled'
appinstalled ==
    /\ Idle
    /\ isInstalled' = TRUE
    /\ canInstall' = FALSE
    /\ deferredPrompt' = NULL
    /\ showBanner' = SignalSet(SignalSet(showBanner, "isInstalled", isInstalled, TRUE),
                               "canInstall", canInstall, FALSE)
    /\ lastHandler' = "appinstalled"
    /\ installedSinceOffer' = TRUE
    /\ UNCHANGED <<offers, promptCount, userChoice, calls, microtasks, storage,
                   constructed, pushVars>>


----------------------------------------------------------------------------
(* PwaInstallService.showInstallPrompt *)

\* One invocation: the handle it prompted (NULL: none), where it stands, the
\* boolean it returned, and, for reference, the number of offers delivered when
\* it started and when it returned, the invocations already returned when
\* it started and whether it started after an appinstalled event with no offer
\* since.
Call(h, pc, result) ==
    [handle |-> h, pc |-> pc, result |-> result,
     offersAtStart |-> offers, offersAtReturn |-> offers,
     doneAtStart |-> {i \in 1..Len(calls) : calls[i].pc = "returned"},
     afterInstalled |-> installedSinceOffer]

\* Mutant: the guard is missing; prompt() of null throws a TypeError.
showInstallPromptUnavailable_NoGuard ==
    /\ deferredPrompt = NULL
    /\ calls' = Append(calls, Call(NULL, "threw", FALSE))
    /\ lastHandler' = "showInstallPrompt"
    /\ UNCHANGED <<isInstalled, canInstall, deferredPrompt, offers, promptCount,
                   userChoice, microtasks, storage, showBanner,
                   constructed, installedSinceOffer, pushVars>>

\* if (!this.deferredPrompt) { ...; return false; }
showInstallPromptUnavailable ==
    /\ deferredPrompt = NULL
    /\ calls' = Append(calls, Call(NULL, "returned", FALSE))
    /\ lastHandler' = "showInstallPrompt"
    /\ UNCHANGED <<isInstalled, canInstall, deferredPrompt, offers, promptCount,
                   userChoice, microtasks, storage, showBanner,
                   constructed, installedSinceOffer, pushVars>>

\* this.deferredPrompt.prompt(); ... await this.deferredPrompt.userChoice
\* prompt() on an event object that was prompted before is not defined by the
\* code: the platform either throws InvalidStateError out of prompt() or
\* returns a rejected promise that the code never looks at.
showInstallPromptPrompt ==
    /\ deferredPrompt # NULL
    /\ promptCount' = [promptCount EXCEPT ![deferredPrompt] = @ + 1]
    /\ \/ /\ calls' = Append(calls, Call(deferredPrompt, "awaiting", FALSE))
          /\ microtasks' = IF userChoice[deferredPrompt] = "pending"
                           THEN microtasks
                           ELSE Append(microtasks, Len(calls) + 1)
       \/ /\ promptCount[deferredPrompt] > 0
          /\ calls' = Append(calls, Call(deferredPrompt, "threw", FALSE))
          /\ UNCHANGED microtasks
    /\ lastHandler' = "showInstallPrompt"
    /\ UNCHANGED <<isInstalled, canInstall, deferredPrompt, offers, userChoice,
                   storage, showBanner, constructed, installedSinceOffer, pushVars>>

\* The call up to its first await (or to its return).
showInstallPrompt ==
    /\ Idle
    /\ Len(calls) < MaxCalls
    /\ (showInstallPromptUnavailable \/ showInstallPromptPrompt)

\* The invocations suspended on userChoice of h, in the order they awaited.
AwaitingOn(h) ==
    SelectSeq([i \in 1..Len(calls) |-> i],
              LAMBDA i : calls[i].pc = "awaiting" /\ calls[i].handle = h)

\* Platform: the user answers the native dialog of h; userChoice resolves and
\* the continuations awaiting it are queued as microtasks.
userChoiceResolved ==
    /\ Idle
    /\ \E h \in Handles, outcome \in Outcomes :
        /\ promptCount[h] > 0
        /\ userChoice[h] = "pending"
        /\ userChoice' = [userChoice EXCEPT ![h] = outcome]
        /\ microtasks' = AwaitingOn(h)
    /\ UNCHANGED <<isInstalled, canInstall, deferredPrompt, offers, promptCount,
                   calls, storage, showBanner,
                   constructed, lastHandler, installedSinceOffer, pushVars>>

\* Mutant: the handle is dropped only when the user accepted.
deferredPromptAfterChoice_KeptOnDismiss(held, prompted, outcome) ==
    IF outcome = "accepted" THEN NULL ELSE held

\* Mutant: only the prompted handle is dropped, a newer one is kept.
deferredPromptAfterChoice_OnlyPrompted(held, prompted, outcome) ==
    IF held = prompted THEN NULL ELSE held

\* this.deferredPrompt = null
deferredPromptAfterChoice(held, prompted, outcome) == NULL

\* Mutant: the continuation forgets this._canInstall.set(false).
canInstallAfterChoice_NotCleared(can, outcome) == can

\* this._canInstall.set(false)
canInstallAfterChoice(can, outcome) == FALSE

\* Mutant: the accepted branch forgets this._isInstalled.set(true).
isInstalledAfterChoice_NeverSet(inst, outcome) == inst

\* Mutant: this._isInstalled.set(outcome === 'accepted').
isInstalledAfterChoice_FromOutcome(inst, outcome) == outcome = "accepted"

\* if (outcome === 'accepted') { this._isInstalled.set(true); ... }
isInstalledAfterChoice(inst, outcome) ==
    IF outcome = "accepted" THEN TRUE ELSE inst

\* Mutant: the continuation returns true whatever the user chose.
resultOfChoice_AlwaysTrue(outcome) == TRUE

\* if (outcome === 'accepted') { ...; return true; } return false;
resultOfChoice(outcome) == outcome = "accepted"

\* The continuation after `await this.deferredPrompt.userChoice`.
showInstallPromptResume ==
    /\ microtasks # <<>>
    /\ LET i == Head(microtasks)
           outcome == userChoice[calls[i].handle]
           inst == isInstalledAfterChoice(isInstalled, outcome)
           can == canInstallAfterChoice(canInstall, outcome)
       IN /\ deferredPrompt' =
                 deferredPromptAfterChoice(deferredPrompt, calls[i].handle, outcome)
          /\ canInstall' = can
          /\ isInstalled' = inst
          /\ showBanner' =
                 SignalSet(SignalSet(showBanner, "canInstall", canInstall, can),
                           "isInstalled", isInstalled, inst)
          /\ calls' = [calls EXCEPT ![i].pc = "returned",
                                    ![i].result = resultOfChoice(outcome),
                                    ![i].offersAtReturn = offers]
          /\ microtasks' = Tail(microtasks)
          /\ lastHandler' = outcome
    /\ UNCHANGED <<offers, promptCount, userChoice, storage,
                   constructed, installedSinceOffer, pushVars>>

----------------------------------------------------------------------------
(* InstallBannerComponent *)

\* The template (change detection) reads showBanner().
showBannerRead ==
    /\ Idle
    /\ showBanner.state # "clean"
    /\ showBanner' = [state |-> "clean",
                      value |-> showBannerFn(isInstalled, canInstall, storage),
                      deps |-> showBannerDeps(isInstalled)]
    /\ UNCHANGED <<isInstalled, canInstall, deferredPrompt, offers, promptCount,
                   userChoice, calls, microtasks, storage,
                   constructed, lastHandler, installedSinceOffer, pushVars>>

\* (click) on "Instalar": await this.installService.showInstallPrompt()
install ==
    /\ bannerRendered
    /\ showInstallPrompt

\* (click) on "Ahora no": localStorage.setItem('install-banner-dismissed', 'true')
dismiss ==
    /\ Idle
    /\ bannerRendered
    /\ storage' = "true"
    /\ UNCHANGED <<isInstalled, canInstall, deferredPrompt, offers, promptCount,
                   userChoice, calls, microtasks, showBanner,
                   constructed, lastHandler, installedSinceOffer, pushVars>>

\* Outside the program: the user clears the site's localStorage.
storageCleared ==
    /\ Idle
    /\ storage # NoItem
    /\ storage' = NoItem
    /\ UNCHANGED <<isInstalled, canInstall, deferredPrompt, offers, promptCount,
                   userChoice, calls, microtasks, showBanner,
                   constructed, lastHandler, installedSinceOffer, pushVars>>

----------------------------------------------------------------------------
(* PwaNotificationService.  An await on a promise that is already resolved   *)
(* resumes in a microtask of the same task: the action runs through it.     *)

\* One invocation: the method, where it stands ("permission": suspended on
\* Notification.requestPermission(), "transport": suspended on the swPush
\* operation, "done": returned, "threw": its promise rejected), whether it
\* called this.requestPermission() and what that resolved to, how many times
\* it called the swPush operation and how that ended.
PushCall(op, pc, asked, hasPermission, transportCalls) ==
    [op |-> op, pc |-> pc, asked |-> asked, hasPermission |-> hasPermission,
     transportCalls |-> transportCalls, transportResult |-> "none"]

\* Mutant: the `if (!hasPermission) return` test is missing.
proceedsToSubscribe_Always(hasPermission) == TRUE

\* if (!hasPermission) { ...; return; }
proceedsToSubscribe(hasPermission) == hasPermission

\* subscribeToNotifications from `const hasPermission = await ...` on, up to
\* `await this.swPush.requestSubscription(...)`.
AfterPermission(c, hasPermission) ==
    IF proceedsToSubscribe(hasPermission)
    THEN [c EXCEPT !.hasPermission = IF hasPermission THEN "true" ELSE "false",
                   !.pc = "transport",
                   !.transportCalls = @ + 1]
    ELSE [c EXCEPT !.hasPermission = IF hasPermission THEN "true" ELSE "false",
                   !.pc = "done"]

\* Mutant: no try/catch around the awaits, the rejection propagates.
afterRejection_Propagates(op) == "threw"

\* catch (error) { console.error(...); }
afterRejection(op) == "done"

\* What a PwaNotificationService instance keeps of a subscription once
\* subscribeToNotifications has returned: `subscription` is a local const that
\* is logged, and the class has no field but swPush.
serviceSubscription == FALSE

\* requestPermission(), called on its own.
requestPermission ==
    /\ Len(pushCalls) < MaxPushCalls
    /\ \/ /\ ~notificationApi
          /\ pushCalls' = Append(pushCalls,
                 PushCall("requestPermission", "done", TRUE, "false", 0))
       \/ /\ notificationApi
          /\ pushCalls' = Append(pushCalls,
                 PushCall("requestPermission", "permission", TRUE, "none", 0))
    /\ UNCHANGED <<swEnabled, notificationApi, permission, pushSubscription,
                   messagesSubs, clicksSubs, installVars>>

\* subscribeToNotifications(vapidPublicKey), up to its first pending await.
subscribeToNotifications ==
    /\ Len(pushCalls) < MaxPushCalls
    /\ \/ /\ ~swEnabled
          /\ pushCalls' = Append(pushCalls,
                 PushCall("subscribe", "done", FALSE, "none", 0))
       \/ /\ swEnabled
          /\ ~notificationApi
          /\ pushCalls' = Append(pushCalls,
                 AfterPermission(PushCall("subscribe", "permission", TRUE, "none", 0),
                                 FALSE))
       \/ /\ swEnabled
          /\ notificationApi
          /\ pushCalls' = Append(pushCalls,
                 PushCall("subscribe", "permission", TRUE, "none", 0))
    /\ UNCHANGED <<swEnabled, notificationApi, permission, pushSubscription,
                   messagesSubs, clicksSubs, installVars>>

\* Platform: Notification.requestPermission() resolves: with the user's
\* answer when the permission was "default", else with the permission as it
\* stands.  The suspended invocation resumes.
permissionResolved ==
    /\ \E i \in DOMAIN pushCalls, answer \in Permissions :
        /\ pushCalls[i].pc = "permission"
        /\ permission = "default" \/ answer = permission
        /\ permission' = answer
        /\ pushCalls' = [pushCalls EXCEPT ![i] =
               IF @.op = "subscribe"
               THEN AfterPermission(@, answer = "granted")
               ELSE [@ EXCEPT !.pc = "done",
                              !.hasPermission =
                                  IF answer = "granted" THEN "true" ELSE "false"]]
    /\ UNCHANGED <<swEnabled, notificationApi, pushSubscription,
                   messagesSubs, clicksSubs, installVars>>

\* Platform: swPush.requestSubscription() settles; it can succeed only with
\* the permission granted.  The invocation logs the subscription, or catches
\* the rejection, and returns.
subscriptionResolved ==
    /\ \E i \in DOMAIN pushCalls :
        /\ pushCalls[i].op = "subscribe"
        /\ pushCalls[i].pc = "transport"
        /\ \/ /\ permission = "granted"
              /\ pushSubscription' = TRUE
              /\ pushCalls' = [pushCalls EXCEPT ![i].pc = "done",
                                                ![i].transportResult = "success"]
           \/ /\ UNCHANGED pushSubscription
              /\ pushCalls' = [pushCalls EXCEPT ![i].pc = afterRejection("subscribe"),
                                                ![i].transportResult = "failure"]
    /\ UNCHANGED <<swEnabled, notificationApi, permission,
                   messagesSubs, clicksSubs, installVars>>

\* unsubscribe(), up to `await this.swPush.unsubscribe()`.
unsubscribe ==
    /\ Len(pushCalls) < MaxPushCalls
    /\ \/ /\ ~swEnabled
          /\ pushCalls' = Append(pushCalls,
                 PushCall("unsubscribe", "done", FALSE, "none", 0))
       \/ /\ swEnabled
          /\ pushCalls' = Append(pushCalls,
                 PushCall("unsubscribe", "transport", FALSE, "none", 1))
    /\ UNCHANGED <<swEnabled, notificationApi, permission, pushSubscription,
                   messagesSubs, clicksSubs, installVars>>

\* Platform: swPush.unsubscribe() settles; it rejects when there is no
\* subscription, and may fail to unregister one.
unsubscribeResolved ==
    /\ \E i \in DOMAIN pushCalls :
        /\ pushCalls[i].op = "unsubscribe"
        /\ pushCalls[i].pc = "transport"
        /\ \/ /\ pushSubscription
              /\ pushSubscription' = FALSE
              /\ pushCalls' = [pushCalls EXCEPT ![i].pc = "done",
                                                ![i].transportResult = "success"]
           \/ /\ UNCHANGED pushSubscription
              /\ pushCalls' = [pushCalls EXCEPT ![i].pc = afterRejection("unsubscribe"),
                                                ![i].transportResult = "failure"]
    /\ UNCHANGED <<swEnabled, notificationApi, permission,
                   messagesSubs, clicksSubs, installVars>>

\* Mutant: the isEnabled guard is missing.
listenToNotifications_NoGuard ==
    /\ Len(pushCalls) < MaxPushCalls
    /\ pushCalls' = Append(pushCalls, PushCall("listen", "done", FALSE, "none", 0))
    /\ messagesSubs' = messagesSubs + 1
    /\ clicksSubs' = clicksSubs + 1
    /\ UNCHANGED <<swEnabled, notificationApi, permission, pushSubscription,
                   installVars>>

\* listenToNotifications()
listenToNotifications ==
    /\ Len(pushCalls) < MaxPushCalls
    /\ pushCalls' = Append(pushCalls, PushCall("listen", "done", FALSE, "none", 0))
    /\ \/ /\ ~swEnabled
          /\ UNCHANGED <<messagesSubs, clicksSubs>>
       \/ /\ swEnabled
          /\ messagesSubs' = messagesSubs + 1
          /\ clicksSubs' = clicksSubs + 1
    /\ UNCHANGED <<swEnabled, notificationApi, permission, pushSubscription,
                   installVars>>

NextPush ==
    \/ requestPermission
    \/ subscribeToNotifications
    \/ permissionResolved
    \/ subscriptionResolved
    \/ unsubscribe
    \/ unsubscribeResolved
    \/ listenToNotifications

\* PwaNotificationService and its platform alone: it shares no state with
\* PwaInstallService, which here receives no event and no call.
InitPushOnly == InitInstall /\ InitPush

SpecPush == InitPushOnly /\ [][NextPush]_vars

----------------------------------------------------------------------------
Next ==
    \/ beforeinstallprompt
    \/ appinstalled
    \/ showInstallPrompt
    \/ userChoiceResolved
    \/ showInstallPromptResume
    \/ showBannerRead
    \/ install
    \/ dismiss
    \/ storageCleared

Spec == Init /\ [][Next]_vars

\* The platform resolves userChoice of every handle on which prompt() was
\* called, and the event loop runs every queued continuation.
Fairness ==
    /\ WF_vars(userChoiceResolved)
    /\ WF_vars(showInstallPromptResume)

SpecFair == Init /\ [][Next]_vars /\ Fairness

TypeOK ==
    /\ isInstalled \in BOOLEAN
    /\ canInstall \in BOOLEAN
    /\ deferredPrompt \in {NULL} \cup Handles
    /\ offers \in 0..MaxOffers
    /\ promptCount \in [Handles -> 0..MaxCalls]
    /\ userChoice \in [Handles -> Outcomes \cup {"pending"}]
    /\ Len(calls) <= MaxCalls
    /\ showBanner.state \in {"unset", "clean", "dirty"}
    /\ storage \in {NoItem, "true"}
    /\ constructed \in {"ok", "threw"}
    /\ lastHandler \in {"constructor", "beforeinstallprompt", "appinstalled",
                         "showInstallPrompt"} \cup Outcomes
    /\ installedSinceOffer \in BOOLEAN
    /\ swEnabled \in BOOLEAN
    /\ notificationApi \in BOOLEAN
    /\ permission \in Permissions
    /\ pushSubscription \in BOOLEAN
    /\ Len(pushCalls) <= MaxPushCalls
    /\ messagesSubs \in 0..MaxPushCalls
    /\ clicksSubs = messagesSubs

----------------------------------------------------------------------------
(* Properties *)

\* The invocations that have returned a value.
Returned == {i \in DOMAIN calls : calls[i].pc = "returned"}

\* Invocation i returned because no handle was held.
Unavailable(i) == i \in Returned /\ calls[i].handle = NULL

\* Invocation i returned after the user's answer `outcome` to its prompt.
Answered(i, outcome) ==
    /\ i \in Returned
    /\ calls[i].handle # NULL
    /\ userChoice[calls[i].handle] = outcome

\* This step resumes invocation i after its userChoice resolved to `outcome`.
Resumes(i, outcome) ==
    /\ calls[i].pc = "awaiting"
    /\ calls'[i].pc = "returned"
    /\ userChoice[calls[i].handle] = outcome

\* This step is an invocation of showInstallPrompt().
Starts == Len(calls') = Len(calls) + 1

\* C1: isInstalled and canInstall are never both true in a settled state,
\* whatever the order of construction, offers, installed events and calls.
C1_NeverInstalledAndInstallable ==
    ~(isInstalled /\ canInstall)

\* C2: prompt() is invoked at most once on any handle, and at most one
\* invocation is suspended on the userChoice of the same handle.
C2_HandleConsumedAtMostOnce ==
    \A h \in Handles :
        /\ promptCount[h] <= 1
        /\ Cardinality({i \in DOMAIN calls :
                           calls[i].pc = "awaiting" /\ calls[i].handle = h}) <= 1

\* C3: an invocation that starts after an earlier one has returned, with no
\* beforeinstallprompt event since that earlier one started, returns false and
\* calls prompt() on nothing.
C3_SecondCallUnavailable ==
    \A j \in DOMAIN calls : \A i \in calls[j].doneAtStart :
        calls[i].offersAtStart = calls[j].offersAtStart
            => Unavailable(j) /\ calls[j].result = FALSE

\* C3 witness: the earlier invocation prompted a handle and returned, and the
\* later one started with no offer in between.
C3_Witness ==
    \E j \in DOMAIN calls : \E i \in calls[j].doneAtStart :
        /\ calls[i].handle # NULL
        /\ calls[i].offersAtStart = calls[j].offersAtStart
        /\ j \in Returned

\* C4: the continuation of an invocation whose userChoice resolved 'accepted'
\* returns true and leaves isInstalled = true, canInstall = false and no
\* handle, by itself; an invocation started after it with no offer in
\* between returns false without prompting.
C4_AcceptedScenario ==
    /\ [][\A i \in DOMAIN calls : Resumes(i, "accepted") =>
              /\ calls'[i].result = TRUE
              /\ isInstalled' = TRUE
              /\ canInstall' = FALSE
              /\ deferredPrompt' = NULL]_vars
    /\ [](\A j \in DOMAIN calls : \A i \in calls[j].doneAtStart :
              (Answered(i, "accepted") /\ calls[i].offersAtReturn = calls[j].offersAtStart)
                  => Unavailable(j) /\ calls[j].result = FALSE)

\* C4 witness: an accepted invocation returned true and a later one, started
\* with no offer in between, has returned.
C4_Witness ==
    \E j \in Returned : \E i \in calls[j].doneAtStart :
        /\ Answered(i, "accepted")
        /\ calls[i].result = TRUE
        /\ calls[i].offersAtReturn = calls[j].offersAtStart
        /\ isInstalled /\ ~canInstall /\ deferredPrompt = NULL

\* C5: the continuation of an invocation whose userChoice resolved
\* 'dismissed' clears canInstall and the handle and changes neither
\* isInstalled nor the stored dismissal item.
C5_DismissedFrame ==
    [][\A i \in DOMAIN calls : Resumes(i, "dismissed") =>
           /\ canInstall' = FALSE
           /\ deferredPrompt' = NULL
           /\ isInstalled' = isInstalled
           /\ storage' = storage]_vars

\* C5 witness: a dismissed invocation has returned and isInstalled, false
\* before it, is still false.
C5_Witness ==
    \E i \in DOMAIN calls :
        Answered(i, "dismissed") /\ ~isInstalled /\ ~canInstall /\ deferredPrompt = NULL

\* C6 as stated: the value returned when no handle is held differs from the
\* value returned when the user dismissed the dialog.
C6_ThreeDistinctOutcomes ==
    \A i, j \in DOMAIN calls :
        (Unavailable(i) /\ Answered(j, "dismissed"))
            => calls[i].result # calls[j].result

\* C6 amended: the returned boolean is true exactly when the user accepted;
\* no handle held and dismissed both return false.
C6_TwoOutcomes ==
    \A i \in Returned :
        calls[i].result = (calls[i].handle # NULL
                           /\ userChoice[calls[i].handle] = "accepted")

\* C6 witness: one invocation of each kind has returned.
C6_Witness ==
    \E i, j, k \in DOMAIN calls :
        Unavailable(i) /\ Answered(j, "dismissed") /\ Answered(k, "accepted")

\* C7: an invocation made while no handle is held returns false in the same
\* step (no suspension, no exception), calls prompt() on nothing and changes
\* none of isInstalled, canInstall, deferredPrompt.
C7_UnavailableImmediate ==
    [][(Starts /\ deferredPrompt = NULL) =>
           /\ calls'[Len(calls')].pc = "returned"
           /\ calls'[Len(calls')].result = FALSE
           /\ calls'[Len(calls')].handle = NULL
           /\ promptCount' = promptCount
           /\ microtasks' = microtasks
           /\ isInstalled' = isInstalled
           /\ canInstall' = canInstall
           /\ deferredPrompt' = NULL]_vars

\* C7 witness: an invocation found no handle, after one was held and lost.
C7_Witness ==
    \E i \in DOMAIN calls : Unavailable(i) /\ calls[i].offersAtStart > 0

\* C8: the value read from showBanner() is !isInstalled && canInstall &&
\* !dismissed on the current signals and the current stored item.
C8_ShowBannerIsDerivation ==
    showBannerValue = (~isInstalled /\ canInstall /\ storage # "true")

\* C9: while the stored dismissal item is 'true' (dismiss() was called and
\* nothing cleared it), every read of showBanner() returns false.
C9_NoBannerWhileDismissed ==
    storage = "true" => showBannerValue = FALSE

\* C10: when the stored item is cleared while isInstalled = false and
\* canInstall = true, the next read of showBanner() returns true.
C10_ClearObservedOnNextRead ==
    [][(storage = "true" /\ storage' = NoItem /\ ~isInstalled' /\ canInstall')
           => showBannerValue' = TRUE]_vars

\* C15: constructing PwaInstallService never throws, the platform's
\* installed-state APIs being absent or not.
C15_ConstructionNeverThrows ==
    constructed = "ok"

\* C16: right after an appinstalled event the state is isInstalled = true,
\* canInstall = false, no handle, a call being in flight or not; and a call
\* started after it, with no offer since, returns false without prompting.
C16_AfterInstalled ==
    /\ lastHandler = "appinstalled" =>
           isInstalled /\ ~canInstall /\ deferredPrompt = NULL
    /\ \A j \in DOMAIN calls :
           calls[j].afterInstalled => Unavailable(j) /\ calls[j].result = FALSE

\* C16 witness: an appinstalled event was handled while a call was suspended,
\* and a call started after it has returned.
C16_Witness ==
    \E i, j \in DOMAIN calls :
        /\ calls[i].pc = "awaiting"
        /\ calls[j].afterInstalled
        /\ Unavailable(j)
        /\ isInstalled /\ ~canInstall /\ deferredPrompt = NULL

\* C17: in the state right after an invocation returns (false for want of a
\* handle, or after the user's answer) no handle is held and canInstall is
\* false, also when a newer offer arrived while the invocation was suspended.
C17_NoHandleAfterReturn ==
    [][\A i \in DOMAIN calls' :
           (calls'[i].pc = "returned" /\ (i > Len(calls) \/ calls[i].pc # "returned"))
               => deferredPrompt' = NULL /\ canInstall' = FALSE]_vars

\* C17 witness: a continuation has just run for an invocation during whose
\* suspension a newer offer was delivered, and no handle is held.
C17_Witness ==
    \E i \in Returned :
        /\ calls[i].handle # NULL
        /\ calls[i].offersAtReturn > calls[i].offersAtStart
        /\ lastHandler = userChoice[calls[i].handle]
        /\ deferredPrompt = NULL /\ ~canInstall

\* C18: canInstall is true exactly when a deferred prompt is held.
C18_CanInstallIffHandle ==
    canInstall <=> (deferredPrompt # NULL)

\* C18 witness: a handle is held and canInstall is true again after an
\* earlier handle was prompted and dropped.
C18_Witness ==
    /\ canInstall /\ deferredPrompt # NULL
    /\ \E i \in Returned : calls[i].handle # NULL

\* C19: the accepted continuation and the appinstalled handler, run one right
\* after the other in either order, leave isInstalled = true, canInstall =
\* false and no handle, and the second of the two changes nothing.
C19_AcceptedInstalledCommute ==
    [][((lastHandler = "accepted" /\ lastHandler' = "appinstalled")
        \/ (lastHandler = "appinstalled"
            /\ \E i \in DOMAIN calls : Resumes(i, "accepted")))
           => /\ isInstalled' = TRUE /\ isInstalled = TRUE
              /\ canInstall' = FALSE /\ canInstall = FALSE
              /\ deferredPrompt' = NULL /\ deferredPrompt = NULL
              /\ showBanner' = showBanner]_vars

\* C19 witness: the only invocation was accepted and the appinstalled handler
\* ran after its continuation, with one offer in the whole run.
C19_Witness ==
    /\ lastHandler = "appinstalled"
    /\ offers = 1
    /\ Len(calls) = 1
    /\ Answered(1, "accepted")

\* C20: no step sets isInstalled back to false.
C20_InstalledMonotone ==
    [][isInstalled => isInstalled']_vars

\* C20 witness: a dismissed continuation has just run and isInstalled is true.
C20_Witness ==
    lastHandler = "dismissed" /\ isInstalled

\* The subscribeToNotifications invocations.
Subscribes == {i \in DOMAIN pushCalls : pushCalls[i].op = "subscribe"}

\* This step settles the swPush operation of invocation i with `result`.
Settles(i, op, result) ==
    /\ pushCalls[i].op = op
    /\ pushCalls[i].transportResult = "none"
    /\ pushCalls'[i].transportResult = result

\* C11: a subscribeToNotifications invocation whose requestPermission()
\* resolved false returns without ever calling swPush.requestSubscription, an
\* invocation that calls it has had requestPermission() resolve true first,
\* and the step in which requestPermission() resolves false leaves the
\* transport's subscription as it was.
C11_NoSubscribeWithoutPermission ==
    /\ [](\A i \in Subscribes :
              /\ pushCalls[i].hasPermission = "false" =>
                     /\ pushCalls[i].pc = "done"
                     /\ pushCalls[i].transportCalls = 0
                     /\ pushCalls[i].transportResult = "none"
              /\ pushCalls[i].transportCalls > 0 =>
                     pushCalls[i].asked /\ pushCalls[i].hasPermission = "true")
    /\ [][\A i \in DOMAIN pushCalls' :
              (pushCalls'[i].op = "subscribe"
               /\ pushCalls'[i].hasPermission = "false"
               /\ (i > Len(pushCalls) \/ pushCalls[i].hasPermission = "none"))
                  => pushSubscription' = pushSubscription]_vars

\* C11 witness: the user denied the permission asked by a
\* subscribeToNotifications invocation, which has returned, and there is no
\* subscription.
C11_Witness ==
    \E i \in Subscribes :
        /\ pushCalls[i].asked
        /\ pushCalls[i].hasPermission = "false"
        /\ pushCalls[i].pc = "done"
        /\ permission = "denied"
        /\ ~pushSubscription

\* C12: no subscribeToNotifications or unsubscribe invocation ends by an
\* exception, whatever the permission and the transport answer, and none
\* calls the swPush operation more than once.
C12_NoExceptionNoRetry ==
    \A i \in DOMAIN pushCalls :
        pushCalls[i].op \in {"subscribe", "unsubscribe"} =>
            pushCalls[i].pc # "threw" /\ pushCalls[i].transportCalls <= 1

\* C12 witness: a subscribeToNotifications and an unsubscribe invocation have
\* both returned after their swPush operation was rejected.
C12_Witness ==
    \E i, j \in DOMAIN pushCalls :
        /\ pushCalls[i].op = "subscribe"
        /\ pushCalls[j].op = "unsubscribe"
        /\ pushCalls[i].transportResult = "failure" /\ pushCalls[i].pc = "done"
        /\ pushCalls[j].transportResult = "failure" /\ pushCalls[j].pc = "done"

\* C13: with swPush.isEnabled false, subscribeToNotifications returns without
\* calling requestPermission() or swPush.requestSubscription, unsubscribe
\* returns without calling swPush.unsubscribe, and listenToNotifications
\* subscribes to neither stream.
C13_DisabledDoesNothing ==
    ~swEnabled =>
        /\ \A i \in DOMAIN pushCalls :
               pushCalls[i].op \in {"subscribe", "unsubscribe", "listen"} =>
                   /\ pushCalls[i].pc = "done"
                   /\ ~pushCalls[i].asked
                   /\ pushCalls[i].transportCalls = 0
        /\ messagesSubs = 0
        /\ clicksSubs = 0

\* C13 witness: the three methods have each been called with swPush disabled.
C13_Witness ==
    /\ ~swEnabled
    /\ \E i, j, k \in DOMAIN pushCalls :
           /\ pushCalls[i].op = "subscribe"
           /\ pushCalls[j].op = "unsubscribe"
           /\ pushCalls[k].op = "listen"

\* C14 as stated: once a subscribeToNotifications invocation has returned
\* after a successful swPush.requestSubscription, the service holds the
\* subscription.
C14_ManagerHoldsHandle ==
    \A i \in Subscribes :
        (pushCalls[i].pc = "done" /\ pushCalls[i].transportResult = "success")
            => serviceSubscription

\* C14 amended: the service keeps nothing; the push transport holds a
\* subscription right after a successful swPush.requestSubscription and none
\* right after a successful swPush.unsubscribe, and a subscription is obtained
\* only by an invocation whose requestPermission() resolved true.
C14_TransportHoldsSubscription ==
    /\ [][\A i \in DOMAIN pushCalls :
              /\ Settles(i, "subscribe", "success") =>
                     pushSubscription' /\ pushCalls'[i].pc = "done"
              /\ Settles(i, "unsubscribe", "success") =>
                     ~pushSubscription' /\ pushCalls'[i].pc = "done"]_vars
    /\ [](\A i \in Subscribes :
              pushCalls[i].transportResult = "success" =>
                  pushCalls[i].hasPermission = "true")

\* C14 witness: a subscription was obtained by one invocation and removed by
\* a later unsubscribe.
C14_Witness ==
    \E i, j \in DOMAIN pushCalls :
        /\ i < j
        /\ pushCalls[i].op = "subscribe"
        /\ pushCalls[i].transportResult = "success"
        /\ pushCalls[j].op = "unsubscribe"
        /\ pushCalls[j].transportResult = "success"
        /\ ~pushSubscription

----------------------------------------------------------------------------
(* Progress of showInstallPrompt *)

\* The invocations that passed the guard of line 112: they found a handle.
FoundHandle == {i \in DOMAIN calls : calls[i].handle # NULL}

\* C21: once the platform resolves userChoice of every prompted handle, every
\* invocation that found a handle eventually returns; it has not returned
\* while its userChoice is unresolved, and the only step that moves an
\* invocation that found a handle is its own continuation after that
\* resolution: no offer, installed event or dismissal ends it early.
C21_FoundHandleReturnsOnResolution ==
    /\ \A i \in 1..MaxCalls :
           [](i \in FoundHandle => <>(i \in Returned))
    /\ [](\A i \in FoundHandle \cap Returned :
              userChoice[calls[i].handle] # "pending")
    /\ [][\A i \in FoundHandle :
              calls'[i] # calls[i] =>
                  /\ \E outcome \in Outcomes : Resumes(i, outcome)
                  /\ microtasks # <<>> /\ Head(microtasks) = i]_vars

\* What the code does guarantee: an invocation suspended on userChoice
\* returns once the platform resolves it.
SuspendedCallReturns ==
    \A i \in 1..MaxCalls :
        [](i \in FoundHandle /\ calls[i].pc = "awaiting" => <>(i \in Returned))

============================================================================
